---- MODULE Spec2Model ----
(***************************************************************************)
(* Pagination / sorting state reconciliation of the composable data table. *)
(*                                                                         *)
(* Two provider variants are modelled:                                     *)
(*   "controlled"   - DataTableProvider that receives pagination and       *)
(*                    columnSort as props and commits through              *)
(*                    onPaginationChange / onColumnSortChange; the owner   *)
(*                    keeps them in React state (createReactStateHandlers).*)
(*   "searchParams" - DataTableProvider that derives pagination (and       *)
(*                    sorting) from searchParams and commits through       *)
(*                    onSearchChange; the owner replaces the search object *)
(*                    with the emitted one.                                *)
(* Besides the providers, the search-param helpers (variant "helpers"),    *)
(* the handlers of createSearchParamHandlers (variant                      *)
(* "searchParamHandlers"), the hook useDataTableURLState (variant          *)
(* "urlState") and the URL-synced DataTable (variant "urlTable") have      *)
(* specifications of their own over the same variables. SpecFetch is the   *)
(* controlled provider as CarsPage mounts it, with fetches that reject and *)
(* the cache invalidation of the page.                                     *)
(* Both run a query keyed by [...queryKey, pagination, sort]; the query    *)
(* cache is the variable queries.                                          *)
(*                                                                         *)
(* A JavaScript object with optional fields is a record whose DOMAIN holds *)
(* only the fields that are defined; an optional value is a sequence of    *)
(* length 0 (undefined) or 1.                                              *)
(***************************************************************************)
EXTENDS Integers, Sequences, FiniteSets, TLC

VARIABLES
  variant,        \* which provider is mounted
  props,          \* provider props: pageSizeOptions, defaultPageSize, defaultSorting?
  serverRowCount, \* total number of rows the fetcher reports
  pagination,     \* controlled variant: the owner's pagination state
  columnSort,     \* controlled variant: the owner's sort state
  searchParams,   \* searchParams variant: the owner's search object
  server,         \* CarsPage server: carIndexToVersion of one car, updates in flight
  queries,        \* query cache: query key ->
                  \*   [status, fetching, invalidated, rowCount, version, args]
  last            \* the most recent handler call and what it passed to its callback

vars == <<variant, props, serverRowCount, pagination, columnSort, searchParams,
          server, queries, last>>

-----------------------------------------------------------------------------
(* Bounds of the model *)

\* inactive cache entries kept besides the observed one
MaxInactiveQueries == 1

PageSizeOptionLists == { <<10, 20, 30, 40, 50>>, <<20, 10>> }
RowCounts == {0, 95}
\* sorts requested: the same column in both directions, and another column
Sorts == { [id |-> "make", desc |-> FALSE], [id |-> "make", desc |-> TRUE],
           [id |-> "model", desc |-> FALSE] }
\* requested page indexes: negative, first page, and one that is the last page of
\* 95 rows at size 10 and beyond the end at larger sizes
RequestedPageIndexes == {-1, 0, 9}
RequestedPageSizes == {7, 10}
InitialPageSizes == {10, 12}
Requests == [pageIndex : RequestedPageIndexes, pageSize : RequestedPageSizes]

-----------------------------------------------------------------------------
(* JavaScript helpers *)

None == << >>
Some(v) == << v >>

Min2(a, b) == IF a <= b THEN a ELSE b
Max2(a, b) == IF a >= b THEN a ELSE b

\* Math.ceil(a / b) for b > 0
MathCeilDiv(a, b) == IF a % b = 0 THEN a \div b ELSE (a \div b) + 1

\* array.includes(x) / array.indexOf(x) !== -1
Includes(arr, x) == \E i \in 1..Len(arr) : arr[i] = x

\* obj.field ?? dflt
Coalesce(obj, field, dflt) == IF field \in DOMAIN obj THEN obj[field] ELSE dflt

-----------------------------------------------------------------------------
(* Query cache (useQuery) *)

QueryKey(pag, sortOpt) == [pageIndex |-> pag.pageIndex, pageSize |-> pag.pageSize, sort |-> sortOpt]

\* data of the observed query: defined only once its fetch has resolved
HasData(q, key) == key \in DOMAIN q /\ q[key].status = "success"

\* data?.rowCount || 0
RowCountOrZero(q, key) == IF HasData(q, key) THEN q[key].rowCount ELSE 0

\* carIndexToVersion is empty when the server starts, and no update is in flight
NoUpdates == [carIndexToVersion |-> 0, updateCarVersion |-> 0]

\* the arguments queryFn passes to the fetcher for the query of a key
FetcherArgs(key) ==
  [pagination |-> [pageIndex |-> key.pageIndex, pageSize |-> key.pageSize],
   sorting |-> key.sort]

\* the query created for a key: its first fetch is in flight
NewQuery(key) ==
  [status |-> "pending", fetching |-> TRUE, invalidated |-> FALSE, rowCount |-> 0,
   version |-> 0, args |-> FetcherArgs(key)]

\* rendering with a key that has no cache entry issues the fetch for it; a cached
\* entry is served without a fetch while it is fresh (staleTime), and is fetched
\* again when it was invalidated or holds an error
Observe(q, key) ==
  IF key \notin DOMAIN q
  THEN [k \in (DOMAIN q) \cup {key} |-> IF k = key THEN NewQuery(key) ELSE q[k]]
  ELSE IF q[key].fetching THEN q
  ELSE IF q[key].status = "error" THEN [q EXCEPT ![key] = NewQuery(key)]
  ELSE IF q[key].invalidated THEN [q EXCEPT ![key].fetching = TRUE]
  ELSE q

-----------------------------------------------------------------------------
(* Controlled DataTableProvider: pagination and columnSort are props *)

\* pageSizeOptions.includes(newPagination.pageSize) ? newPagination.pageSize : pageSizeOptions[0]
ValidatedPageSize(pageSizeOptions, newPagination) ==
  IF Includes(pageSizeOptions, newPagination.pageSize)
  THEN newPagination.pageSize
  ELSE pageSizeOptions[1]

\* variation of MaxPageIndex: the quotient is rounded down
MaxPageIndexFloor(rowCountOrZero, validatedPageSize) ==
  Max2(0, (rowCountOrZero \div validatedPageSize) - 1)

\* Math.max(0, Math.ceil((data?.rowCount || 0) / validatedPageSize) - 1)
MaxPageIndex(rowCountOrZero, validatedPageSize) ==
  Max2(0, MathCeilDiv(rowCountOrZero, validatedPageSize) - 1)

\* Math.min(Math.max(0, newPagination.pageIndex), maxPageIndex)
ValidatedPageIndex(newPagination, maxPageIndex) ==
  Min2(Max2(0, newPagination.pageIndex), maxPageIndex)

\* variation of ValidatedPagination: the clamp divides by the requested page size
ValidatedPaginationRequestedSize(pageSizeOptions, rowCountOrZero, newPagination) ==
  LET validatedPageSize == ValidatedPageSize(pageSizeOptions, newPagination)
      maxPageIndex == MaxPageIndex(rowCountOrZero, newPagination.pageSize)
  IN [pageIndex |-> ValidatedPageIndex(newPagination, maxPageIndex),
      pageSize |-> validatedPageSize]

\* the validatedPagination object handlePaginationChange builds
ValidatedPagination(pageSizeOptions, rowCountOrZero, newPagination) ==
  LET validatedPageSize == ValidatedPageSize(pageSizeOptions, newPagination)
      maxPageIndex == MaxPageIndex(rowCountOrZero, validatedPageSize)
  IN [pageIndex |-> ValidatedPageIndex(newPagination, maxPageIndex),
      pageSize |-> validatedPageSize]

\* the key of the query the controlled provider observes
ControlledKey == QueryKey(pagination, Some(columnSort))

\* the owner commits through setPagination / setColumnSort and the provider
\* re-renders with the new props, observing the query of the new key
CacheHasRoom(key) ==
  key \in DOMAIN queries \/ Cardinality(DOMAIN queries) <= MaxInactiveQueries

\* body of handlePaginationChange, reached directly (context value) or from
\* handleTablePaginationChange
CommitPaginationLogged(op, newPagination, run) ==
  LET rc == RowCountOrZero(queries, ControlledKey)
      validatedPagination == ValidatedPagination(props.pageSizeOptions, rc, newPagination)
      key == QueryKey(validatedPagination, Some(columnSort))
  IN /\ variant = "controlled"
     /\ CacheHasRoom(key)
     /\ pagination' = validatedPagination
     /\ queries' = Observe(queries, key)
     /\ last' = [op |-> op, kind |-> "pagination", req |-> newPagination,
                 cur |-> pagination, hasData |-> HasData(queries, ControlledKey),
                 rowCount |-> rc, resolved |-> validatedPagination, called |-> TRUE,
                 arg |-> validatedPagination] @@ run
     /\ UNCHANGED <<server, variant, props, serverRowCount, columnSort, searchParams>>

CommitPagination(op, newPagination) == CommitPaginationLogged(op, newPagination, << >>)

HandlePaginationChange ==
  /\ variant = "controlled"
  /\ \E newPagination \in Requests : CommitPagination("handlePaginationChange", newPagination)

\* react-table hands over a literal state or a function of the current state
PaginationUpdaters ==
  [kind : {"value"}, value : {[pageIndex |-> 9, pageSize |-> 7]}]
    \cup [kind : {"shift"}, delta : {-1, 1}]

ApplyPaginationUpdater(updater, old) ==
  IF updater.kind = "value" THEN updater.value
  ELSE [pageIndex |-> old.pageIndex + updater.delta, pageSize |-> old.pageSize]

HandleTablePaginationChange ==
  /\ variant = "controlled"
  /\ \E updater \in PaginationUpdaters :
       /\ ApplyPaginationUpdater(updater, pagination).pageIndex \in RequestedPageIndexes
       /\ CommitPagination("handleTablePaginationChange", ApplyPaginationUpdater(updater, pagination))

CommitColumnSort(op, newColumnSort) ==
  LET key == QueryKey(pagination, Some(newColumnSort))
  IN /\ variant = "controlled"
     /\ CacheHasRoom(key)
     /\ columnSort' = newColumnSort
     /\ queries' = Observe(queries, key)
     /\ last' = [op |-> op, kind |-> "sort", req |-> Some(newColumnSort),
                 cur |-> Some(columnSort), called |-> TRUE, arg |-> Some(newColumnSort)]
     /\ UNCHANGED <<server, variant, props, serverRowCount, pagination, searchParams>>

HandleColumnSortChange ==
  \E newColumnSort \in Sorts : CommitColumnSort("handleColumnSortChange", newColumnSort)

\* react-table hands over a sorting array (or a function of [columnSort])
SortingArrays == { << >>, << [id |-> "model", desc |-> FALSE] >> }

\* variation of HandleTableSortingChange: an empty sorting array puts the sort
\* by make back through onColumnSortChange
HandleTableSortingChangeClear ==
  \E newSorting \in SortingArrays :
    IF Len(newSorting) > 0
    THEN CommitColumnSort("handleTableSortingChange", newSorting[1])
    ELSE /\ variant = "controlled"
         /\ CacheHasRoom(QueryKey(pagination, Some([id |-> "make", desc |-> FALSE])))
         /\ columnSort' = [id |-> "make", desc |-> FALSE]
         /\ queries' = Observe(queries, QueryKey(pagination, Some([id |-> "make", desc |-> FALSE])))
         /\ last' = [op |-> "handleTableSortingChange", kind |-> "sort", req |-> None,
                     cur |-> Some(columnSort), called |-> TRUE, arg |-> Some([id |-> "make", desc |-> FALSE])]
         /\ UNCHANGED <<server, variant, props, serverRowCount, pagination, searchParams>>

HandleTableSortingChange ==
  \E newSorting \in SortingArrays :
    IF Len(newSorting) > 0
    THEN CommitColumnSort("handleTableSortingChange", newSorting[1])
    ELSE /\ variant = "controlled"
         /\ last' = [op |-> "handleTableSortingChange", kind |-> "sort", req |-> None,
                     cur |-> Some(columnSort), called |-> FALSE]
         /\ UNCHANGED <<server, variant, props, serverRowCount, pagination, columnSort,
                        searchParams, queries>>

-----------------------------------------------------------------------------
(* Search-param DataTableProvider: pagination and sorting derive from searchParams *)

\* { pageIndex: searchParams.pageIndex ?? 0, pageSize: searchParams.pageSize ?? defaultPageSize }
SearchPagination(sp, defaultPageSize) ==
  [pageIndex |-> Coalesce(sp, "pageIndex", 0),
   pageSize |-> Coalesce(sp, "pageSize", defaultPageSize)]

\* searchParams.sorting ?? defaultSorting
SearchSorting(sp, p) ==
  IF "sorting" \in DOMAIN sp THEN Some(sp.sorting)
  ELSE IF "defaultSorting" \in DOMAIN p THEN Some(p.defaultSorting)
  ELSE None

SearchKey == QueryKey(SearchPagination(searchParams, props.defaultPageSize),
                      SearchSorting(searchParams, props))

\* variation of SearchPageSize: an unknown size falls back to the default page size
SearchPageSizeDefault(pageSizeOptions, newPagination) ==
  IF Includes(pageSizeOptions, newPagination.pageSize)
  THEN newPagination.pageSize
  ELSE props.defaultPageSize

\* pageSizeOptions.indexOf(newPagination.pageSize) !== -1 ? newPagination.pageSize : pageSizeOptions[0]
SearchPageSize(pageSizeOptions, newPagination) ==
  IF Includes(pageSizeOptions, newPagination.pageSize)
  THEN newPagination.pageSize
  ELSE pageSizeOptions[1]

\* Math.min(Math.max(0, newPagination.pageIndex), (data?.rowCount || 0) * newPagination.pageSize - 1)
SearchPageIndex(newPagination, rowCountOrZero, pageSize) ==
  Min2(Max2(0, newPagination.pageIndex), rowCountOrZero * pageSize - 1)

\* newPagination after the two assignments of updateSearchParams
SearchValidated(pageSizeOptions, rowCountOrZero, newPagination) ==
  LET pageSize == SearchPageSize(pageSizeOptions, newPagination)
  IN [pageIndex |-> SearchPageIndex(newPagination, rowCountOrZero, pageSize),
      pageSize |-> pageSize]

\* the early return of updateSearchParams
SearchUnchanged(newPagination, current) ==
  newPagination.pageIndex = current.pageIndex /\ newPagination.pageSize = current.pageSize

\* the object passed to onSearchChange; undefined-valued fields are absent
SearchObject(pag, sortOpt, defaultPageSize) ==
  (IF pag.pageIndex = 0 THEN << >> ELSE [pageIndex |-> pag.pageIndex])
  @@ (IF pag.pageSize = defaultPageSize THEN << >> ELSE [pageSize |-> pag.pageSize])
  @@ (IF sortOpt # None THEN [sorting |-> sortOpt[1]] ELSE << >>)

\* body of updateSearchParams, reached directly (context value) or from
\* handlePaginationChange; the owner stores the emitted search object
CommitSearchPagination(op, request) ==
  LET current == SearchPagination(searchParams, props.defaultPageSize)
      sorting == SearchSorting(searchParams, props)
      rc == RowCountOrZero(queries, SearchKey)
      newPagination == SearchValidated(props.pageSizeOptions, rc, request)
      search == SearchObject(newPagination, sorting, props.defaultPageSize)
      entry == [op |-> op, kind |-> "pagination", req |-> request, cur |-> current,
                hasData |-> HasData(queries, SearchKey), rowCount |-> rc,
                resolved |-> newPagination]
  IN /\ variant = "searchParams"
     /\ IF SearchUnchanged(newPagination, current)
        THEN /\ last' = entry @@ [called |-> FALSE]
             /\ UNCHANGED <<searchParams, queries>>
        ELSE /\ CacheHasRoom(QueryKey(SearchPagination(search, props.defaultPageSize),
                                      SearchSorting(search, props)))
             /\ searchParams' = search
             /\ queries' = Observe(queries, QueryKey(SearchPagination(search, props.defaultPageSize),
                                                     SearchSorting(search, props)))
             /\ last' = entry @@ [called |-> TRUE, arg |-> search]
     /\ UNCHANGED <<server, variant, props, serverRowCount, pagination, columnSort>>

UpdateSearchParams ==
  /\ variant = "searchParams"
  /\ \E newPagination \in Requests : CommitSearchPagination("updateSearchParams", newPagination)

SearchHandlePaginationChange ==
  /\ variant = "searchParams"
  /\ \E updater \in PaginationUpdaters :
       LET newPagination == ApplyPaginationUpdater(updater, SearchPagination(searchParams, props.defaultPageSize))
       IN /\ newPagination.pageIndex \in RequestedPageIndexes
          /\ CommitSearchPagination("handlePaginationChange", newPagination)

\* JSON.stringify(newSorting) === JSON.stringify(sorting)
SameSorting(newSorting, sorting) == newSorting = sorting

\* body of updateSorting, reached directly (context value) or from handleSortingChange
CommitSearchSorting(op, newSorting) ==
  LET current == SearchPagination(searchParams, props.defaultPageSize)
      sorting == SearchSorting(searchParams, props)
      search == SearchObject(current, newSorting, props.defaultPageSize)
      entry == [op |-> op, kind |-> "sort", req |-> newSorting, cur |-> sorting]
  IN /\ variant = "searchParams"
     /\ IF SameSorting(newSorting, sorting)
        THEN /\ last' = entry @@ [called |-> FALSE]
             /\ UNCHANGED <<searchParams, queries>>
        ELSE /\ CacheHasRoom(QueryKey(SearchPagination(search, props.defaultPageSize),
                                      SearchSorting(search, props)))
             /\ searchParams' = search
             /\ queries' = Observe(queries, QueryKey(SearchPagination(search, props.defaultPageSize),
                                                     SearchSorting(search, props)))
             /\ last' = entry @@ [called |-> TRUE, arg |-> search]
     /\ UNCHANGED <<server, variant, props, serverRowCount, pagination, columnSort>>

UpdateSorting ==
  /\ variant = "searchParams"
  /\ \E newSorting \in {None} \cup {Some(s) : s \in Sorts} : CommitSearchSorting("updateSorting", newSorting)

\* singleSort = newSorting[0], undefined for an empty array
HandleSortingChange ==
  /\ variant = "searchParams"
  /\ \E newSorting \in SortingArrays :
       CommitSearchSorting("handleSortingChange", IF Len(newSorting) > 0 THEN Some(newSorting[1]) ELSE None)

-----------------------------------------------------------------------------
(* The fetcher and the query cache *)

\* the key of the query the self-managed DataTable observes
SelfManagedKey == QueryKey(pagination, None)

ObservedKey ==
  IF variant = "controlled" THEN ControlledKey
  ELSE IF variant = "selfManaged" THEN SelfManagedKey
  ELSE SearchKey

\* the queryFn of a pending query resolves with the fetcher's result: generateCars
\* reads carIndexToVersion as it is when the server handles the request
FetchResolve ==
  \E key \in DOMAIN queries :
    /\ variant \in {"controlled", "searchParams", "selfManaged"}
    /\ queries[key].fetching
    /\ queries' = [queries EXCEPT ![key] =
                     [status |-> "success", fetching |-> FALSE, invalidated |-> FALSE,
                      rowCount |-> serverRowCount, version |-> server.carIndexToVersion,
                      args |-> queries[key].args]]
    /\ UNCHANGED <<server, variant, props, serverRowCount, pagination, columnSort, searchParams,
                   last>>

\* a query without observer is removed from the cache once its gcTime has passed
GarbageCollect ==
  \E key \in DOMAIN queries :
    /\ variant \in {"controlled", "searchParams", "selfManaged"}
    /\ key # ObservedKey
    /\ ~queries[key].fetching
    /\ queries' = [k \in (DOMAIN queries) \ {key} |-> queries[k]]
    /\ UNCHANGED <<server, variant, props, serverRowCount, pagination, columnSort, searchParams,
                   last>>

-----------------------------------------------------------------------------
(* Initial states and next-state relation of the providers *)

NoCall == [op |-> "mount", kind |-> "none"]

InitialSort == [id |-> "make", desc |-> FALSE]

InitControlled ==
  /\ variant = "controlled"
  /\ \E opts \in PageSizeOptionLists : props = [pageSizeOptions |-> opts]
  /\ serverRowCount \in RowCounts
  /\ server = NoUpdates
  /\ pagination \in [pageIndex : {0}, pageSize : InitialPageSizes]
  /\ columnSort = InitialSort
  /\ searchParams = << >>
  /\ queries = Observe(<< >>, QueryKey(pagination, Some(columnSort)))
  /\ last = NoCall

\* search objects the owner may hold when the provider mounts
InitialSearchParams ==
  { ps @@ so :
      ps \in {<< >>} \cup {[pageSize |-> n] : n \in InitialPageSizes},
      so \in {<< >>, [sorting |-> [id |-> "model", desc |-> FALSE]]} }

\* provider configurations: the default props, and one with a first option that
\* is not the default page size and with a default sorting
SearchProps ==
  { [pageSizeOptions |-> <<10, 20, 30, 40, 50>>, defaultPageSize |-> 10],
    [pageSizeOptions |-> <<20, 10>>, defaultPageSize |-> 10, defaultSorting |-> InitialSort] }

InitSearch ==
  /\ variant = "searchParams"
  /\ props \in SearchProps
  /\ serverRowCount \in RowCounts
  /\ server = NoUpdates
  /\ pagination = [pageIndex |-> 0, pageSize |-> 0]
  /\ columnSort = InitialSort
  /\ searchParams \in InitialSearchParams
  /\ queries = Observe(<< >>, QueryKey(SearchPagination(searchParams, props.defaultPageSize),
                                       SearchSorting(searchParams, props)))
  /\ last = NoCall

Init == InitControlled \/ InitSearch

Next ==
  \/ HandlePaginationChange
  \/ HandleTablePaginationChange
  \/ HandleColumnSortChange
  \/ HandleTableSortingChange
  \/ UpdateSearchParams
  \/ SearchHandlePaginationChange
  \/ UpdateSorting
  \/ HandleSortingChange
  \/ FetchResolve
  \/ GarbageCollect

Spec == Init /\ [][Next]_vars

-----------------------------------------------------------------------------
(* What the controlled provider exposes to the views while fetches resolve,
   reject and are invalidated (CarsPage) *)

\* variation of ExposedData: a result in the cache is shown until the one of the
\* observed key has arrived
ExposedDataKeepPrevious(q, key) ==
  IF HasData(q, key) THEN Some(q[key])
  ELSE IF \E k \in DOMAIN q : q[k].status = "success"
       THEN Some(q[CHOOSE k \in DOMAIN q : q[k].status = "success"])
       ELSE None

\* data of useQuery: the result held by the query of the observed key
ExposedData(q, key) == IF HasData(q, key) THEN Some(q[key]) ELSE None

\* isLoading of useQuery: the first fetch of the observed query is in flight
IsLoading(q, key) == key \in DOMAIN q /\ q[key].status = "pending" /\ q[key].fetching

\* rows.length of the fetcher's result: sortedCars.slice(startIndex, startIndex + pageSize)
RowsLength(rowCount, pag) ==
  Max2(0, Min2(pag.pageSize, rowCount - pag.pageIndex * pag.pageSize))

\* what CardView and DataTableRenderer render
ViewShows(q, key) ==
  IF IsLoading(q, key) THEN "loading"
  ELSE IF ExposedData(q, key) = None
          \/ RowsLength(ExposedData(q, key)[1].rowCount, ExposedData(q, key)[1].args.pagination) = 0
       THEN "empty"
       ELSE "rows"

\* the queryFn of a query's first fetch rejects (after the retries)
FetchReject ==
  \E key \in DOMAIN queries :
    /\ variant = "controlled"
    /\ queries[key].fetching /\ queries[key].status = "pending"
    /\ queries' = [queries EXCEPT ![key].status = "error", ![key].fetching = FALSE]
    /\ UNCHANGED <<server, variant, props, serverRowCount, pagination, columnSort, searchParams,
                   last>>

\* an invalidation that marks the queries and fetches none of them again
InvalidateQueriesMarkOnly ==
  /\ variant = "controlled"
  /\ ViewShows(queries, ControlledKey) = "rows"
  /\ queries' = [k \in DOMAIN queries |-> [queries[k] EXCEPT !.invalidated = TRUE]]
  /\ UNCHANGED <<server, variant, props, serverRowCount, pagination, columnSort, searchParams>>
  /\ last' = [op |-> "invalidateQueries", kind |-> "invalidate",
              cur |-> pagination, sort |-> columnSort,
              arg |-> pagination', argSort |-> columnSort',
              refetching |-> queries'[ControlledKey].fetching, called |-> FALSE]

\* CarsPage, update version onClick: queryClient.invalidateQueries({ queryKey: ["cars"] })
\* marks every query invalidated and fetches the observed one again; the button is
\* in a rendered row.  No callback of the provider is involved (called FALSE).
InvalidateQueries ==
  /\ variant = "controlled"
  /\ ViewShows(queries, ControlledKey) = "rows"
  /\ queries' = [k \in DOMAIN queries |->
                   IF k = ControlledKey
                   THEN [queries[k] EXCEPT !.fetching = TRUE, !.invalidated = TRUE]
                   ELSE [queries[k] EXCEPT !.invalidated = TRUE]]
  /\ UNCHANGED <<server, variant, props, serverRowCount, pagination, columnSort, searchParams>>
  /\ last' = [op |-> "invalidateQueries", kind |-> "invalidate",
              cur |-> pagination, sort |-> columnSort,
              arg |-> pagination', argSort |-> columnSort',
              refetching |-> queries'[ControlledKey].fetching, called |-> FALSE]

\* CarsPage: useState({ pageIndex: 0, pageSize: 12 }), the default pageSizeOptions
InitFetch ==
  /\ InitControlled
  /\ props.pageSizeOptions = <<10, 20, 30, 40, 50>>
  /\ pagination = [pageIndex |-> 0, pageSize |-> 12]

NextFetch ==
  \/ HandlePaginationChange
  \/ HandleTablePaginationChange
  \/ HandleColumnSortChange
  \/ HandleTableSortingChange
  \/ FetchResolve
  \/ FetchReject
  \/ InvalidateQueries
  \/ GarbageCollect

SpecFetch == InitFetch /\ [][NextFetch]_vars

-----------------------------------------------------------------------------
(* CarsPage, the update-version button of a row: the update request and the
   re-fetch of the invalidated query travel to the server independently *)

\* number of clicks on the button that are followed
MaxUpdateClicks == 5

\* onClick: updateCarVersion({ data: { id } }) is sent and not awaited, then
\* queryClient.invalidateQueries({ queryKey: ["cars"] }) fetches the observed query again
UpdateVersionClick ==
  /\ variant = "controlled"
  /\ ViewShows(queries, ControlledKey) = "rows"
  /\ server.carIndexToVersion + server.updateCarVersion < MaxUpdateClicks
  /\ server' = [server EXCEPT !.updateCarVersion = @ + 1]
  /\ queries' = [k \in DOMAIN queries |->
                   IF k = ControlledKey
                   THEN [queries[k] EXCEPT !.fetching = TRUE, !.invalidated = TRUE]
                   ELSE [queries[k] EXCEPT !.invalidated = TRUE]]
  /\ last' = [op |-> "updateVersion", kind |-> "updateVersion",
              shown |-> queries[ControlledKey].version]
  /\ UNCHANGED <<variant, props, serverRowCount, pagination, columnSort, searchParams>>

\* the server handles one update request:
\* carIndexToVersion.set(id, (carIndexToVersion.get(id) ?? 0) + 1)
UpdateCarVersionHandled ==
  /\ variant = "controlled"
  /\ server.updateCarVersion > 0
  /\ server' = [carIndexToVersion |-> server.carIndexToVersion + 1,
                updateCarVersion |-> server.updateCarVersion - 1]
  /\ UNCHANGED <<variant, props, serverRowCount, pagination, columnSort, searchParams,
                 queries, last>>

NextUpdateVersion ==
  \/ UpdateVersionClick
  \/ UpdateCarVersionHandled
  \/ FetchResolve

SpecUpdateVersion == InitFetch /\ [][NextUpdateVersion]_vars

-----------------------------------------------------------------------------
(* Search-param helpers (DataTableHelpers) *)

\* searchParamsToPagination
SearchParamsToPagination(sp, defaultPageSize) ==
  [pageIndex |-> Coalesce(sp, "pageIndex", 0),
   pageSize |-> Coalesce(sp, "pageSize", defaultPageSize)]

\* searchParamsToColumnSort; the empty string is falsy
SearchParamsToColumnSort(sp, defaultSort) ==
  IF "sortId" \in DOMAIN sp /\ sp.sortId # ""
  THEN [id |-> sp.sortId, desc |-> Coalesce(sp, "sortDesc", FALSE)]
  ELSE defaultSort

\* variation of PaginationToSearchParams: the first page is written like any other
PaginationToSearchParamsKeepZero(pag, defaultPageSize) ==
  (IF pag.pageIndex >= 0 THEN [pageIndex |-> pag.pageIndex] ELSE << >>)
  @@ (IF pag.pageSize # defaultPageSize THEN [pageSize |-> pag.pageSize] ELSE << >>)

\* paginationToSearchParams; a field set to undefined is absent
PaginationToSearchParams(pag, defaultPageSize) ==
  (IF pag.pageIndex > 0 THEN [pageIndex |-> pag.pageIndex] ELSE << >>)
  @@ (IF pag.pageSize # defaultPageSize THEN [pageSize |-> pag.pageSize] ELSE << >>)

\* variation of ColumnSortToSearchParams: only the column id is compared with the default
ColumnSortToSearchParamsIdOnly(sort, defaultSort) ==
  IF sort.id # defaultSort.id
  THEN [sortId |-> sort.id] @@ (IF sort.desc THEN [sortDesc |-> TRUE] ELSE << >>)
  ELSE << >>

\* columnSortToSearchParams; a field set to undefined is absent
ColumnSortToSearchParams(sort, defaultSort) ==
  IF sort.id # defaultSort.id \/ sort.desc # defaultSort.desc
  THEN [sortId |-> sort.id] @@ (IF sort.desc THEN [sortDesc |-> TRUE] ELSE << >>)
  ELSE << >>

\* inputs of the helpers
MaxHelperPageIndex == 2
HelperPageIndexes == -1 .. MaxHelperPageIndex
HelperPageSizes == {10, 20}
HelperSortIds == {"", "id", "name"}
HelperSorts == [id : HelperSortIds, desc : BOOLEAN]
HelperDefaultSorts == [id : HelperSortIds \ {""}, desc : BOOLEAN]

InitHelpers ==
  /\ variant = "helpers"
  /\ props \in [defaultPageSize : HelperPageSizes, defaultSort : HelperDefaultSorts]
  /\ serverRowCount = 0
  /\ server = NoUpdates
  /\ pagination \in [pageIndex : HelperPageIndexes, pageSize : HelperPageSizes]
  /\ columnSort \in HelperSorts
  /\ searchParams = << >>
  /\ queries = << >>
  /\ last = [op |-> "input"]

\* encode the state (pagination, columnSort) into one search object
Encode ==
  /\ variant = "helpers"
  /\ last.op = "input"
  /\ searchParams' = PaginationToSearchParams(pagination, props.defaultPageSize)
                     @@ ColumnSortToSearchParams(columnSort, props.defaultSort)
  /\ last' = [op |-> "encoded"]
  /\ UNCHANGED <<server, variant, props, serverRowCount, pagination, columnSort, queries>>

\* decode the search object with the same defaults
Decode ==
  /\ variant = "helpers"
  /\ last.op = "encoded"
  /\ last' = [op |-> "decoded",
              pagination |-> SearchParamsToPagination(searchParams, props.defaultPageSize),
              columnSort |-> SearchParamsToColumnSort(searchParams, props.defaultSort)]
  /\ UNCHANGED <<server, variant, props, serverRowCount, pagination, columnSort, searchParams, queries>>

NextHelpers == Encode \/ Decode

SpecHelpers == InitHelpers /\ [][NextHelpers]_vars

-----------------------------------------------------------------------------
(* createSearchParamHandlers: the handlers write the encoded state into the
   router's search object *)

\* variation of NavigateSearch: the new search object holds the written keys only
NavigateSearchReplace(prev, keys, params) == params

\* search: (prev) => { newSearch = {...prev}; delete or set each of the keys }
NavigateSearch(prev, keys, params) ==
  [k \in ((DOMAIN prev) \ keys) \cup DOMAIN params |->
     IF k \in DOMAIN params THEN params[k] ELSE prev[k]]

\* search objects the router holds when the handlers are created
HandlerSearchObjects ==
  { << >>,
    [q |-> "audi"],
    [pageIndex |-> 2, pageSize |-> 20, sortId |-> "name", sortDesc |-> TRUE, q |-> "audi"] }
HandlerPaginations == [pageIndex : {0, 2}, pageSize : HelperPageSizes]
HandlerSorts == HelperDefaultSorts

InitSearchParamHandlers ==
  /\ variant = "searchParamHandlers"
  /\ props \in [defaultPageSize : HelperPageSizes, defaultSort : HelperDefaultSorts]
  /\ serverRowCount = 0
  /\ server = NoUpdates
  /\ pagination = [pageIndex |-> 0, pageSize |-> 0]
  /\ columnSort = InitialSort
  /\ searchParams \in HandlerSearchObjects
  /\ queries = << >>
  /\ last = NoCall

\* createSearchParamHandlers(...).onPaginationChange
HandlersOnPaginationChange ==
  /\ variant = "searchParamHandlers"
  /\ \E pag \in HandlerPaginations :
       LET paginationParams == PaginationToSearchParams(pag, props.defaultPageSize)
       IN /\ searchParams' = NavigateSearch(searchParams, {"pageIndex", "pageSize"},
                                            paginationParams)
          /\ last' = [op |-> "onPaginationChange", kind |-> "pagination", req |-> pag,
                      params |-> paginationParams, prev |-> searchParams]
  /\ UNCHANGED <<server, variant, props, serverRowCount, pagination, columnSort, queries>>

\* createSearchParamHandlers(...).onColumnSortChange
HandlersOnColumnSortChange ==
  /\ variant = "searchParamHandlers"
  /\ \E sort \in HandlerSorts :
       LET sortParams == ColumnSortToSearchParams(sort, props.defaultSort)
       IN /\ searchParams' = NavigateSearch(searchParams, {"sortId", "sortDesc"}, sortParams)
          /\ last' = [op |-> "onColumnSortChange", kind |-> "sort", req |-> sort,
                      params |-> sortParams, prev |-> searchParams]
  /\ UNCHANGED <<server, variant, props, serverRowCount, pagination, columnSort, queries>>

NextSearchParamHandlers == HandlersOnPaginationChange \/ HandlersOnColumnSortChange

SpecSearchParamHandlers == InitSearchParamHandlers /\ [][NextSearchParamHandlers]_vars

-----------------------------------------------------------------------------
(* useDataTableURLState: state derived from the router's search object *)

\* the state object the hook derives on every render
URLState(sp, config) ==
  [pagination |-> [pageIndex |-> Coalesce(sp, "pageIndex", 0),
                   pageSize |-> Coalesce(sp, "pageSize", config.defaultPageSize)],
   sorting |-> [id |-> Coalesce(sp, "sortId", config.defaultSort.id),
                desc |-> Coalesce(sp, "sortDesc", config.defaultSort.desc)]]

\* navigate({ search: prev => ... }): every key of updates is deleted from prev
\* when its value is undefined and set otherwise
ApplyUpdates(prev, keys, defined) ==
  [k \in ((DOMAIN prev) \ keys) \cup DOMAIN defined |->
     IF k \in DOMAIN defined THEN defined[k] ELSE prev[k]]

\* the defined fields of updates in onPaginationChange
URLPaginationUpdates(pag, config) ==
  (IF pag.pageIndex > 0 THEN [pageIndex |-> pag.pageIndex] ELSE << >>)
  @@ (IF pag.pageSize # config.defaultPageSize THEN [pageSize |-> pag.pageSize] ELSE << >>)

\* the defined fields of updates in onSortingChange
URLSortingUpdates(sorting, config) ==
  IF sorting.id # config.defaultSort.id \/ sorting.desc # config.defaultSort.desc
  THEN [sortId |-> sorting.id] @@ (IF sorting.desc THEN [sortDesc |-> TRUE] ELSE << >>)
  ELSE << >>

URLSortIds == {"id", "name"}
URLSorts == [id : URLSortIds, desc : BOOLEAN]
MaxURLPageIndex == 2
URLPaginations == [pageIndex : 0 .. MaxURLPageIndex, pageSize : {10, 20}]

InitURLState ==
  /\ variant = "urlState"
  /\ props \in [defaultPageSize : {10, 20}, defaultSort : URLSorts]
  /\ serverRowCount = 0
  /\ server = NoUpdates
  /\ pagination = [pageIndex |-> 0, pageSize |-> 0]
  /\ columnSort = InitialSort
  /\ searchParams \in {<< >>, [q |-> "audi"]}
  /\ queries = << >>
  /\ last = NoCall

URLOnPaginationChange ==
  \E pag \in URLPaginations :
    /\ variant = "urlState"
    /\ searchParams' = ApplyUpdates(searchParams, {"pageIndex", "pageSize"},
                                    URLPaginationUpdates(pag, props))
    /\ last' = [op |-> "onPaginationChange", kind |-> "pagination", req |-> pag]
    /\ UNCHANGED <<server, variant, props, serverRowCount, pagination, columnSort, queries>>

URLOnSortingChange ==
  \E sorting \in URLSorts :
    /\ variant = "urlState"
    /\ searchParams' = ApplyUpdates(searchParams, {"sortId", "sortDesc"},
                                    URLSortingUpdates(sorting, props))
    /\ last' = [op |-> "onSortingChange", kind |-> "sort", req |-> sorting]
    /\ UNCHANGED <<server, variant, props, serverRowCount, pagination, columnSort, queries>>

NextURLState == URLOnPaginationChange \/ URLOnSortingChange

SpecURLState == InitURLState /\ [][NextURLState]_vars

-----------------------------------------------------------------------------
(* URL-synced DataTable (components/DataTable.tsx): pagination is React state
   initialised from, and written back to, the query string of window.location.
   The URL is the record url of query values, each a sequence of characters;
   the query the component runs does not feed back into these handlers. *)

Digits == <<"0", "1", "2", "3", "4", "5", "6", "7", "8", "9">>
IsDigit(c) == \E d \in 1..10 : Digits[d] = c
DigitValue(c) == (CHOOSE d \in 1..10 : Digits[d] = c) - 1

RECURSIVE ParseDigits(_, _, _)
\* the value of the longest run of digits of str that starts at position i
ParseDigits(str, i, acc) ==
  IF i > Len(str) \/ ~IsDigit(str[i]) THEN acc
  ELSE ParseDigits(str, i + 1, acc * 10 + DigitValue(str[i]))

RECURSIVE SkipWhitespace(_, _)
SkipWhitespace(str, i) ==
  IF i <= Len(str) /\ str[i] = " " THEN SkipWhitespace(str, i + 1) ELSE i

\* parseInt(str, 10): leading whitespace, an optional sign, then the longest run
\* of digits; NaN (None) when there is no digit at that place
ParseInt(str) ==
  LET start == SkipWhitespace(str, 1)
      signed == start <= Len(str) /\ str[start] \in {"-", "+"}
      first == IF signed THEN start + 1 ELSE start
  IN IF first > Len(str) \/ ~IsDigit(str[first]) THEN None
     ELSE IF signed /\ str[start] = "-" THEN Some(0 - ParseDigits(str, first, 0))
     ELSE Some(ParseDigits(str, first, 0))

RECURSIVE NatToString(_)
NatToString(n) ==
  IF n < 10 THEN << Digits[n + 1] >> ELSE NatToString(n \div 10) \o << Digits[(n % 10) + 1] >>

\* Number.prototype.toString() of an integer
IntToString(n) == IF n < 0 THEN << "-" >> \o NatToString(0 - n) ELSE NatToString(n)

\* variation of GetPaginationFromURL: every parsed number is taken as it is
GetPaginationFromURLUnchecked(url, p) ==
  [pageIndex |-> IF "pageIndex" \in DOMAIN url /\ ParseInt(url.pageIndex) # None
                 THEN ParseInt(url.pageIndex)[1] ELSE 0,
   pageSize |-> IF "pageSize" \in DOMAIN url /\ ParseInt(url.pageSize) # None
                THEN ParseInt(url.pageSize)[1] ELSE p.defaultPageSize]

\* getPaginationFromURL; url.searchParams.get(k) is null for an absent key
GetPaginationFromURL(url, p) ==
  [pageIndex |-> IF "pageIndex" \in DOMAIN url
                    /\ ParseInt(url.pageIndex) # None /\ ParseInt(url.pageIndex)[1] >= 0
                 THEN ParseInt(url.pageIndex)[1] ELSE 0,
   pageSize |-> IF "pageSize" \in DOMAIN url
                   /\ ParseInt(url.pageSize) # None /\ ParseInt(url.pageSize)[1] > 0
                   /\ Includes(p.pageSizeOptions, ParseInt(url.pageSize)[1])
                THEN ParseInt(url.pageSize)[1] ELSE p.defaultPageSize]

\* variation of UpdateURLWithPagination: the new query starts empty
UpdateURLWithPaginationFresh(url, newPagination, p) ==
  (IF newPagination.pageIndex # 0
   THEN [pageIndex |-> IntToString(newPagination.pageIndex)] ELSE << >>)
  @@ (IF newPagination.pageSize # p.defaultPageSize
      THEN [pageSize |-> IntToString(newPagination.pageSize)] ELSE << >>)

\* updateURLWithPagination: both keys are deleted and written back unless default
UpdateURLWithPagination(url, newPagination, p) ==
  NavigateSearch(url, {"pageIndex", "pageSize"},
    (IF newPagination.pageIndex # 0
     THEN [pageIndex |-> IntToString(newPagination.pageIndex)] ELSE << >>)
    @@ (IF newPagination.pageSize # p.defaultPageSize
        THEN [pageSize |-> IntToString(newPagination.pageSize)] ELSE << >>))

\* query values found in the URL: empty, non-numeric, negative, zero, in range,
\* out of the option sets, with trailing characters, with a leading blank
URLValues ==
  { << >>, <<"a", "b", "c">>, <<"-", "1">>, <<"0">>, <<"2">>, <<"1", "2">>,
    <<"2", "0">>, <<"2", "a">>, <<" ", "2", "0">> }
\* a query has any of pageIndex and pageSize, and possibly a key of the page's own
URLQueries ==
  { pi @@ ps @@ other :
      pi \in {<< >>} \cup {[pageIndex |-> v] : v \in URLValues},
      ps \in {<< >>} \cup {[pageSize |-> v] : v \in URLValues},
      other \in {<< >>, [q |-> <<"a", "b", "c">>]} }
URLTableProps ==
  { [pageSizeOptions |-> <<10, 20, 30, 40, 50>>, defaultPageSize |-> 10],
    [pageSizeOptions |-> <<20, 50>>, defaultPageSize |-> 10] }
\* page indexes up to which the table's pagination updaters are followed
MaxURLTablePageIndex == 3
URLTableUpdaters ==
  [kind : {"value"}, value : {[pageIndex |-> 1, pageSize |-> 20]}]
    \cup [kind : {"shift"}, delta : {-1, 1}]
\* page numbers typed into the page input, and the rowCount of the data shown then
URLTablePageNumbers == {1, 2, 10}
URLTableData == {None, Some(95)}

\* useState(() => getPaginationFromURL())
InitURLTable ==
  /\ variant = "urlTable"
  /\ props \in URLTableProps
  /\ serverRowCount = 0
  /\ server = NoUpdates
  /\ searchParams \in URLQueries
  /\ pagination = GetPaginationFromURL(searchParams, props)
  /\ columnSort = InitialSort
  /\ queries = << >>
  /\ last = [op |-> "mount", kind |-> "decode", url |-> searchParams,
             result |-> GetPaginationFromURL(searchParams, props)]

\* popstate: the browser moved to another URL and handleURLChange decodes it
HandleURLChange ==
  /\ variant = "urlTable"
  /\ \E url \in URLQueries :
       /\ searchParams' = url
       /\ pagination' = GetPaginationFromURL(url, props)
       /\ last' = [op |-> "handleURLChange", kind |-> "decode", url |-> url,
                   result |-> GetPaginationFromURL(url, props)]
  /\ UNCHANGED <<server, variant, props, serverRowCount, columnSort, queries>>

\* handlePaginationChange of the URL-synced table: state and URL are both written.
\* Only react-table calls it, with the updaters of setPageIndex, previousPage and
\* nextPage, none of which yields a page index below 0.
URLTableHandlePaginationChange ==
  /\ variant = "urlTable"
  /\ \E updater \in URLTableUpdaters :
       LET newPagination == ApplyPaginationUpdater(updater, pagination)
       IN /\ newPagination.pageIndex \in 0 .. MaxURLTablePageIndex
          /\ pagination' = newPagination
          /\ searchParams' = UpdateURLWithPagination(searchParams, newPagination, props)
          /\ last' = [op |-> "handlePaginationChange", kind |-> "pagination",
                      cur |-> pagination, arg |-> newPagination]
  /\ UNCHANGED <<server, variant, props, serverRowCount, columnSort, queries>>

\* onChange of the page size select
URLTablePageSizeChange ==
  /\ variant = "urlTable"
  /\ \E i \in 1..Len(props.pageSizeOptions) :
       LET newPageSize == props.pageSizeOptions[i]
           newPagination == [pageIndex |-> 0, pageSize |-> newPageSize]
       IN /\ pagination' = newPagination
          /\ searchParams' = UpdateURLWithPagination(searchParams, newPagination, props)
          /\ last' = [op |-> "pageSizeChange", kind |-> "pageSize", cur |-> pagination,
                      size |-> newPageSize, arg |-> newPagination]
  /\ UNCHANGED <<server, variant, props, serverRowCount, columnSort, queries>>

\* handlePageInputSubmit with a page number that handlePageInputChange accepted
\* against the data of that moment: 1 .. maxPages, maxPages 1 without data
URLTablePageInputSubmit ==
  /\ variant = "urlTable"
  /\ \E pageNumber \in URLTablePageNumbers, data \in URLTableData :
       LET maxPages == IF data # None THEN MathCeilDiv(data[1], pagination.pageSize) ELSE 1
           targetPageIndex == pageNumber - 1
           newPagination == [pageIndex |-> targetPageIndex, pageSize |-> pagination.pageSize]
       IN /\ pageNumber >= 1 /\ pageNumber <= maxPages
          /\ targetPageIndex # pagination.pageIndex
          /\ pagination' = newPagination
          /\ searchParams' = UpdateURLWithPagination(searchParams, newPagination, props)
          /\ last' = [op |-> "handlePageInputSubmit", kind |-> "pagination",
                      cur |-> pagination, arg |-> newPagination]
  /\ UNCHANGED <<server, variant, props, serverRowCount, columnSort, queries>>

NextURLTable ==
  \/ HandleURLChange
  \/ URLTableHandlePaginationChange
  \/ URLTablePageInputSubmit
  \/ URLTablePageSizeChange

SpecURLTable == InitURLTable /\ [][NextURLTable]_vars

-----------------------------------------------------------------------------
(* Self-managed DataTable (components/DataTable.tsx, second component):
   pagination is React state, and react-table commits through setPagination *)

\* page indexes up to which the pagination updaters are followed
MaxSelfManagedPageIndex == 1
\* page numbers typed into the page input
PageNumbers == {1, 2, 10}

InitSelfManaged ==
  /\ variant = "selfManaged"
  /\ \E n \in InitialPageSizes :
       /\ props = [pageSizeOptions |-> <<10, 20, 30, 40, 50>>, initialPageSize |-> n]
       /\ pagination = [pageIndex |-> 0, pageSize |-> n]
  /\ serverRowCount \in RowCounts
  /\ server = NoUpdates
  /\ columnSort = InitialSort
  /\ searchParams = << >>
  /\ queries = Observe(<< >>, QueryKey(pagination, None))
  /\ last = NoCall

\* setPagination(next) followed by the render that observes the query of next; the
\* entry also records what handlePaginationChange of the controlled provider
\* commits for the same request, current state and data
SelfManagedCommit(op, request, newPagination) ==
  /\ variant = "selfManaged"
  /\ CacheHasRoom(QueryKey(newPagination, None))
  /\ pagination' = newPagination
  /\ queries' = Observe(queries, QueryKey(newPagination, None))
  /\ last' = [op |-> op, kind |-> "pagination", req |-> request, cur |-> pagination,
              hasData |-> HasData(queries, SelfManagedKey), arg |-> newPagination,
              controlled |-> ValidatedPagination(props.pageSizeOptions,
                                                 RowCountOrZero(queries, SelfManagedKey),
                                                 request)]
  /\ UNCHANGED <<server, variant, props, serverRowCount, columnSort, searchParams>>

\* onPaginationChange: setPagination, with the value or updater of react-table
SelfManagedSetPagination ==
  /\ variant = "selfManaged"
  /\ \E updater \in PaginationUpdaters :
       LET newPagination == ApplyPaginationUpdater(updater, pagination)
       IN /\ newPagination.pageIndex \in (0 .. MaxSelfManagedPageIndex) \cup {9}
          /\ SelfManagedCommit("setPagination", newPagination, newPagination)

\* handlePageInputSubmit with a page number that handlePageInputChange accepted:
\* 1 .. maxPages, where maxPages is 1 while there is no data
SelfManagedPageInputSubmit ==
  /\ variant = "selfManaged"
  /\ \E pageNumber \in PageNumbers :
       LET maxPages == IF HasData(queries, SelfManagedKey)
                       THEN MathCeilDiv(queries[SelfManagedKey].rowCount, pagination.pageSize)
                       ELSE 1
           targetPageIndex == pageNumber - 1
           newPagination == [pageIndex |-> targetPageIndex, pageSize |-> pagination.pageSize]
       IN /\ pageNumber >= 1 /\ pageNumber <= maxPages
          /\ targetPageIndex # pagination.pageIndex
          /\ SelfManagedCommit("handlePageInputSubmit", newPagination, newPagination)

NextSelfManaged ==
  \/ SelfManagedSetPagination
  \/ SelfManagedPageInputSubmit
  \/ FetchResolve
  \/ GarbageCollect

SpecSelfManaged == InitSelfManaged /\ [][NextSelfManaged]_vars

-----------------------------------------------------------------------------
(* BottomPaginator on the controlled provider: the page-navigation requests.
   Each one reaches handleTablePaginationChange as a function of the current
   pagination that keeps pageSize.  table is also a context value, so the
   requests are taken at any time; the disabled state of the buttons is computed
   by react-table and is not part of the request. *)

\* longest run of successive next-page requests that is followed
MaxNextPageRequests == 3

\* table.getPageCount() with rowCount: data?.rowCount and no rows while there is no data
TablePageCount ==
  IF HasData(queries, ControlledKey)
  THEN MathCeilDiv(queries[ControlledKey].rowCount, pagination.pageSize)
  ELSE 0

\* table.setPageIndex(pageIndex): old => ({ ...old, pageIndex }), applied to pagination
SetPageIndex(op, pageIndex, run) ==
  CommitPaginationLogged(op, [pageIndex |-> pageIndex, pageSize |-> pagination.pageSize], run)

\* table.setPageIndex(0)
FirstPage == variant = "controlled" /\ SetPageIndex("firstPage", 0, << >>)

\* table.previousPage()
PreviousPage ==
  variant = "controlled" /\ SetPageIndex("previousPage", pagination.pageIndex - 1, << >>)

\* the page the current run of next-page requests started from, and its length
NextPageRun ==
  IF last.op = "nextPage"
  THEN [start |-> last.start, count |-> last.count + 1]
  ELSE [start |-> pagination.pageIndex, count |-> 1]

\* table.nextPage()
NextPage ==
  /\ variant = "controlled"
  /\ NextPageRun.count <= MaxNextPageRequests
  /\ SetPageIndex("nextPage", pagination.pageIndex + 1, NextPageRun)

\* table.setPageIndex(table.getPageCount() - 1)
LastPage == variant = "controlled" /\ SetPageIndex("lastPage", TablePageCount - 1, << >>)

\* handlePageInputSubmit with a page number handlePageInputChange accepted
GoToPage ==
  /\ variant = "controlled"
  /\ \E pageNumber \in PageNumbers :
       /\ pageNumber >= 1 /\ pageNumber <= TablePageCount
       /\ SetPageIndex("goToPage", pageNumber - 1, << >>)

NextNavigation ==
  \/ FirstPage
  \/ PreviousPage
  \/ NextPage
  \/ LastPage
  \/ GoToPage
  \/ FetchResolve
  \/ GarbageCollect

SpecNavigation == InitControlled /\ [][NextNavigation]_vars

-----------------------------------------------------------------------------
(* useDataTableState: pagination and sorting in one React state object *)

InitReactState ==
  /\ variant = "reactState"
  /\ props \in [defaultPageSize : {10, 20}, defaultSort : URLSorts]
  /\ serverRowCount = 0
  /\ server = NoUpdates
  /\ pagination = [pageIndex |-> 0, pageSize |-> props.defaultPageSize]
  /\ columnSort = props.defaultSort
  /\ searchParams = << >>
  /\ queries = << >>
  /\ last = NoCall

\* onPaginationChange: updateState({ pagination }), i.e. prev => ({ ...prev, pagination })
StateOnPaginationChange ==
  \E pag \in URLPaginations :
    /\ variant = "reactState"
    /\ pagination' = pag
    /\ last' = [op |-> "onPaginationChange", kind |-> "pagination", req |-> pag]
    /\ UNCHANGED <<server, variant, props, serverRowCount, columnSort, searchParams, queries>>

\* onSortingChange: updateState({ sorting })
StateOnSortingChange ==
  \E sorting \in URLSorts :
    /\ variant = "reactState"
    /\ columnSort' = sorting
    /\ last' = [op |-> "onSortingChange", kind |-> "sort", req |-> sorting]
    /\ UNCHANGED <<server, variant, props, serverRowCount, pagination, searchParams, queries>>

\* the four ways of committing pagination and sort side by side
InitIndependence ==
  InitSearchParamHandlers \/ InitURLState \/ InitReactState \/ InitSearch

NextIndependence ==
  \/ HandlersOnPaginationChange
  \/ HandlersOnColumnSortChange
  \/ URLOnPaginationChange
  \/ URLOnSortingChange
  \/ StateOnPaginationChange
  \/ StateOnSortingChange
  \/ UpdateSearchParams
  \/ SearchHandlePaginationChange
  \/ UpdateSorting
  \/ HandleSortingChange
  \/ FetchResolve
  \/ GarbageCollect

SpecIndependence == InitIndependence /\ [][NextIndependence]_vars

-----------------------------------------------------------------------------
(* Construction: the first render of a component with the props of its caller *)

\* the error the providers throw for their pageSizeOptions prop, if any
PageSizeOptionsError(pageSizeOptions) ==
  IF Len(pageSizeOptions) = 0
  THEN Some("pageSizeOptions must be a non-empty array")
  ELSE IF \E i \in 1..Len(pageSizeOptions) : pageSizeOptions[i] <= 0
       THEN Some("All pageSizeOptions values must be greater than 0")
       ELSE None

\* pageSizeOptions props a caller may pass
ConstructionOptionLists ==
  { << >>, <<0>>, <<10, -5>>, <<10, 20, 30, 40, 50>>, <<20, 10>> }

Unconstructed == [op |-> "props", kind |-> "none"]

InitConstruction ==
  /\ variant \in {"controlled", "searchParams", "urlTable"}
  /\ serverRowCount \in RowCounts
  /\ server = NoUpdates
  /\ columnSort = InitialSort
  /\ queries = << >>
  /\ last = Unconstructed
  /\ \E opts \in ConstructionOptionLists :
       \/ /\ variant = "controlled"
          /\ props = [pageSizeOptions |-> opts]
          /\ pagination \in [pageIndex : {0}, pageSize : InitialPageSizes]
          /\ searchParams = << >>
       \/ /\ variant = "searchParams"
          /\ props = [pageSizeOptions |-> opts, defaultPageSize |-> 10]
          /\ pagination = [pageIndex |-> 0, pageSize |-> 0]
          /\ searchParams \in InitialSearchParams
       \/ /\ variant = "urlTable"
          /\ props = [pageSizeOptions |-> opts, defaultPageSize |-> 10]
          /\ pagination = [pageIndex |-> 0, pageSize |-> 0]
          /\ searchParams \in URLQueries

\* first render of a DataTableProvider: the props are validated, then the state is
\* derived and useQuery issues the fetch for it
ConstructProvider ==
  /\ variant \in {"controlled", "searchParams"}
  /\ last = Unconstructed
  /\ IF PageSizeOptionsError(props.pageSizeOptions) # None
     THEN /\ last' = [op |-> "construct", kind |-> "throw",
                      error |-> PageSizeOptionsError(props.pageSizeOptions)[1]]
          /\ UNCHANGED queries
     ELSE /\ last' = [op |-> "construct", kind |-> "mounted"]
          /\ queries' = Observe(queries, ObservedKey)
  /\ UNCHANGED <<server, variant, props, serverRowCount, pagination, columnSort, searchParams>>

\* first render of the URL-synced DataTable: useState(() => getPaginationFromURL())
ConstructURLTable ==
  /\ variant = "urlTable"
  /\ last = Unconstructed
  /\ pagination' = GetPaginationFromURL(searchParams, props)
  /\ last' = [op |-> "construct", kind |-> "mounted"]
  /\ UNCHANGED <<server, variant, props, serverRowCount, columnSort, searchParams, queries>>

NextConstruction == ConstructProvider \/ ConstructURLTable

SpecConstruction == InitConstruction /\ [][NextConstruction]_vars

-----------------------------------------------------------------------------
(* Properties *)

Elements(arr) == { arr[i] : i \in 1..Len(arr) }

Clamp(x, lo, hi) == IF x < lo THEN lo ELSE IF x > hi THEN hi ELSE x

\* the least n with n * pageSize >= rowCount, i.e. ceil(rowCount / pageSize)
PageCount(rowCount, pageSize) ==
  CHOOSE n \in 0..rowCount : n * pageSize >= rowCount /\ \A m \in 0..(n - 1) : m * pageSize < rowCount

\* max(0, ceil(rowCount / pageSize) - 1)
LastValidPage(rowCount, pageSize) ==
  IF PageCount(rowCount, pageSize) = 0 THEN 0 ELSE PageCount(rowCount, pageSize) - 1

ControlledPaginationCall == variant = "controlled" /\ last.kind = "pagination"
SearchPaginationCall == variant = "searchParams" /\ last.kind = "pagination"
ProviderSortCall == variant \in {"controlled", "searchParams"} /\ last.kind = "sort"

\* C1: with a known rowCount, the controlled provider's handlePaginationChange
\* passes to onPaginationChange the requested pageIndex clamped to
\* 0 .. max(0, ceil(rowCount / resolvedPageSize) - 1).
C1_ControlledClampsToLastPage ==
  (ControlledPaginationCall /\ last.hasData) =>
    /\ last.called
    /\ last.arg.pageIndex =
         Clamp(last.req.pageIndex, 0, LastValidPage(last.rowCount, last.arg.pageSize))

\* rowCount 95, resolved pageSize 20, requested pageIndex 9: pageIndex 4 is committed
C1_Witness ==
  /\ ControlledPaginationCall /\ last.hasData
  /\ last.rowCount = 95 /\ last.req.pageIndex = 9
  /\ last.arg = [pageIndex |-> 4, pageSize |-> 20]
  /\ pagination = last.arg

\* C2: in both providers a requested pageSize outside pageSizeOptions resolves to
\* pageSizeOptions[0] and a member of pageSizeOptions is kept.
C2_PageSizeCoercedToFirstOption ==
  (variant \in {"controlled", "searchParams"} /\ last.kind = "pagination") =>
    /\ last.resolved.pageSize =
         IF last.req.pageSize \in Elements(props.pageSizeOptions)
         THEN last.req.pageSize
         ELSE Head(props.pageSizeOptions)
    /\ (last.called /\ variant = "controlled") => last.arg.pageSize = last.resolved.pageSize
    /\ (last.called /\ variant = "searchParams") =>
         Coalesce(last.arg, "pageSize", props.defaultPageSize) = last.resolved.pageSize

\* updateSearchParams: pageSize 7 with options [20, 10] resolves to 20 and is emitted
C2_Witness ==
  /\ SearchPaginationCall
  /\ props.pageSizeOptions = <<20, 10>>
  /\ last.req.pageSize = 7
  /\ last.called /\ last.arg.pageSize = 20

\* C3: while no data is loaded, handlePaginationChange of the controlled provider
\* only clamps from below: a requested pageIndex k >= 0 is committed as k, a
\* negative one as 0.
C3_NoUpperClampWithoutData ==
  (ControlledPaginationCall /\ ~last.hasData) =>
    /\ last.called
    /\ last.arg.pageIndex = IF last.req.pageIndex >= 0 THEN last.req.pageIndex ELSE 0

\* C4: with a known rowCount, updateSearchParams never passes onSearchChange a
\* pageIndex beyond the last valid page max(0, ceil(rowCount / pageSize) - 1).
C4_SearchNeverBeyondLastPage ==
  (SearchPaginationCall /\ last.hasData /\ last.called) =>
    Coalesce(last.arg, "pageIndex", 0) <= LastValidPage(last.rowCount, last.resolved.pageSize)

\* C5: the pageIndex updateSearchParams resolves and emits is never negative, and
\* with rowCount = 0 it is 0.
C5_SearchPageIndexNeverNegative ==
  SearchPaginationCall =>
    /\ last.resolved.pageIndex >= 0
    /\ last.called => Coalesce(last.arg, "pageIndex", 0) >= 0
    /\ (last.hasData /\ last.rowCount = 0) => last.resolved.pageIndex = 0

\* C6: every pagination handed to the fetcher (every query the provider has issued,
\* the one of the initial state included) has a pageSize that is a member of
\* pageSizeOptions.
C6_FetchedPageSizeIsAllowed ==
  variant \in {"controlled", "searchParams"} =>
    \A key \in DOMAIN queries : key.pageSize \in Elements(props.pageSizeOptions)

\* C7: a pagination request whose validated result equals the current pagination
\* invokes no change callback, in either provider.
C7_NoCallbackForSamePagination ==
  (variant \in {"controlled", "searchParams"} /\ last.kind = "pagination"
     /\ last.resolved = last.cur) => ~last.called

\* C8: a sort request equal to the current sort (same id, same desc) invokes no
\* change callback, in either provider.
C8_NoCallbackForSameSort ==
  (ProviderSortCall /\ last.req # None /\ last.req = last.cur) => ~last.called

\* C9: for pageIndex >= 0 and a non-empty sort id, decoding the search params that
\* paginationToSearchParams and columnSortToSearchParams produce, with the same
\* defaults, returns the original pagination and sort.
C9_HelpersRoundTrip ==
  (variant = "helpers" /\ last.op = "decoded"
     /\ pagination.pageIndex >= 0 /\ columnSort.id # "") =>
    /\ last.pagination = pagination
    /\ last.columnSort = columnSort

\* a state away from every default went through the search params and came back
C9_Witness ==
  /\ variant = "helpers" /\ last.op = "decoded"
  /\ pagination.pageIndex > 0 /\ pagination.pageSize # props.defaultPageSize
  /\ columnSort.id = props.defaultSort.id /\ columnSort.desc # props.defaultSort.desc
  /\ DOMAIN searchParams = {"pageIndex", "pageSize", "sortId"}
  /\ last.pagination = pagination /\ last.columnSort = columnSort

\* C10: in useDataTableURLState, after onSortingChange(s) the sorting derived from
\* the search params equals s, and after onPaginationChange(p) the derived
\* pagination equals p, for every configured defaultSort.
C10_URLStateRoundTrip ==
  variant = "urlState" =>
    /\ last.kind = "sort" => URLState(searchParams, props).sorting = last.req
    /\ last.kind = "pagination" => URLState(searchParams, props).pagination = last.req

\* C11: encoding the default state (pageIndex 0, pageSize = defaultPageSize,
\* sort = defaultSort) leaves pageIndex, pageSize, sortId and sortDesc undefined,
\* and the handlers of createSearchParamHandlers called with it delete these keys
\* from the search object and leave the other keys alone.
C11_DefaultStateEncodesToNothing ==
  /\ (variant = "searchParamHandlers" /\ last.kind = "pagination"
        /\ last.req = [pageIndex |-> 0, pageSize |-> props.defaultPageSize])
      => /\ DOMAIN last.params = {}
         /\ DOMAIN searchParams = (DOMAIN last.prev) \ {"pageIndex", "pageSize"}
  /\ (variant = "searchParamHandlers" /\ last.kind = "sort"
        /\ last.req = props.defaultSort)
      => /\ DOMAIN last.params = {}
         /\ DOMAIN searchParams = (DOMAIN last.prev) \ {"sortId", "sortDesc"}

\* both handlers were called with the defaults on a search object that held all
\* four keys: only the unrelated key is left
C11_Witness ==
  /\ variant = "searchParamHandlers" /\ last.kind = "sort"
  /\ last.req = props.defaultSort
  /\ {"sortId", "sortDesc"} \subseteq DOMAIN last.prev
  /\ searchParams = [q |-> "audi"]

\* C12: in the search-param provider configured with a defaultSorting, every object
\* passed to onSearchChange is canonical: it carries a sorting field only when the
\* sort differs from defaultSorting, a pageIndex only when it is not 0 and a
\* pageSize only when it differs from defaultPageSize.
C12_EmittedSearchIsCanonical ==
  (variant = "searchParams" /\ "defaultSorting" \in DOMAIN props
     /\ last.kind \in {"pagination", "sort"} /\ last.called) =>
    /\ "sorting" \in DOMAIN last.arg => last.arg.sorting # props.defaultSorting
    /\ "pageIndex" \in DOMAIN last.arg => last.arg.pageIndex # 0
    /\ "pageSize" \in DOMAIN last.arg => last.arg.pageSize # props.defaultPageSize

\* C13: the pagination the search-param provider decodes from the persisted search
\* object has a pageIndex >= 0, and a persisted pageSize that is not in
\* pageSizeOptions decodes to defaultPageSize.
C13_DecodedPaginationIsValid ==
  variant = "searchParams" =>
    LET decoded == SearchPagination(searchParams, props.defaultPageSize)
    IN /\ decoded.pageIndex >= 0
       /\ ("pageSize" \in DOMAIN searchParams
             /\ searchParams.pageSize \notin Elements(props.pageSizeOptions))
          => decoded.pageSize = props.defaultPageSize

\* a query value that is a plain decimal numeral, and the number it denotes
IsNumeral(url, key) ==
  key \in DOMAIN url /\ \E n \in 0..99 : IntToString(n) = url[key]
NumeralValue(url, key) == CHOOSE n \in 0..99 : IntToString(n) = url[key]
\* a query value that is absent, holds no digit, or is negative
IsUnusable(url, key) ==
  \/ key \notin DOMAIN url
  \/ \A i \in 1..Len(url[key]) : ~IsDigit(url[key][i])
  \/ (Len(url[key]) > 0 /\ url[key][1] = "-")

\* C14: getPaginationFromURL returns, for every pageIndex and pageSize query value,
\* a pageIndex that is an integer >= 0 and a pageSize that is a member of
\* pageSizeOptions or defaultPageSize; a numeral is taken when valid, and an
\* unusable or out-of-set value falls back to 0 or defaultPageSize whatever the
\* other field holds.
C14_GetPaginationFromURLIsTotal ==
  (variant = "urlTable" /\ last.kind = "decode") =>
    /\ last.result.pageIndex \in Nat
    /\ last.result.pageSize \in Elements(props.pageSizeOptions) \cup {props.defaultPageSize}
    /\ IsNumeral(last.url, "pageIndex") =>
         last.result.pageIndex = NumeralValue(last.url, "pageIndex")
    /\ IsUnusable(last.url, "pageIndex") => last.result.pageIndex = 0
    /\ IsNumeral(last.url, "pageSize") =>
         last.result.pageSize =
           IF NumeralValue(last.url, "pageSize") \in Elements(props.pageSizeOptions)
           THEN NumeralValue(last.url, "pageSize") ELSE props.defaultPageSize
    /\ IsUnusable(last.url, "pageSize") => last.result.pageSize = props.defaultPageSize

\* a URL with a negative pageIndex and a valid, non-default pageSize was decoded
C14_Witness ==
  /\ variant = "urlTable" /\ last.op = "handleURLChange"
  /\ last.url = [pageIndex |-> <<"-", "1">>, pageSize |-> <<"2", "0">>]
  /\ pagination = [pageIndex |-> 0, pageSize |-> 20]

\* C15: the page size select of the URL-synced DataTable, changing the size from
\* {pageIndex: i, pageSize: s} to n, commits pageIndex floor(i * s / n).
C15_PageSizeChangeKeepsFirstRow ==
  (variant = "urlTable" /\ last.kind = "pageSize") =>
    last.arg.pageIndex = (last.cur.pageIndex * last.cur.pageSize) \div last.size

\* C17: whenever a handler changes an element of the tuple (pageIndex, pageSize,
\* sort) the provider's query is keyed on, a fetch for the new tuple is issued:
\* right after the change the fetch of the new tuple's query is in flight.
C17_TupleChangeIssuesFetch ==
  [][ (ObservedKey' # ObservedKey) =>
        (ObservedKey' \in DOMAIN queries' /\ queries'[ObservedKey'].fetching) ]_vars

\* C18: the data the controlled provider exposes is always the result fetched for
\* the committed pagination and sort, whatever the order in which fetches resolve:
\* a result that arrives for a superseded state is never exposed, and once the
\* fetch of the committed state has resolved its result is the one exposed.
C18_ExposedDataIsForCommittedState ==
  variant = "controlled" =>
    /\ ExposedData(queries, ControlledKey) # None =>
         ExposedData(queries, ControlledKey)[1].args =
           [pagination |-> pagination, sorting |-> Some(columnSort)]
    /\ (ControlledKey \in DOMAIN queries /\ queries[ControlledKey].status = "success") =>
         ExposedData(queries, ControlledKey) = Some(queries[ControlledKey])

\* the state changed from A to B while A's fetch was unresolved; A's result has
\* arrived, B's has not, and nothing is exposed
C18_Witness ==
  /\ variant = "controlled" /\ last.kind = "pagination" /\ ~last.hasData
  /\ QueryKey(last.cur, Some(columnSort)) # ControlledKey
  /\ HasData(queries, QueryKey(last.cur, Some(columnSort)))
  /\ queries[ControlledKey].status = "pending"
  /\ ExposedData(queries, ControlledKey) = None

\* C19: isLoading is true exactly while a fetch for the committed state is in
\* flight, a re-fetch forced by invalidateQueries included, and false once it has
\* resolved.
C19_IsLoadingWhileFetching ==
  variant = "controlled" =>
    (IsLoading(queries, ControlledKey) <=> queries[ControlledKey].fetching)

\* C20: when the fetch for the committed state has rejected the views do not show
\* the empty-state message, and when it has resolved with zero rows they show the
\* empty state (not the loading spinner).
C20_ErrorIsNotShownAsEmpty ==
  variant = "controlled" =>
    /\ queries[ControlledKey].status = "error" => ViewShows(queries, ControlledKey) # "empty"
    /\ (HasData(queries, ControlledKey)
          /\ RowsLength(queries[ControlledKey].rowCount, pagination) = 0)
       => ViewShows(queries, ControlledKey) = "empty"

\* C21: a component constructed with a pageSizeOptions prop that is empty or holds
\* a value <= 0 throws, and has neither derived state nor issued a fetch.
C21_InvalidOptionsThrowAtConstruction ==
  (last.op = "construct"
     /\ (Len(props.pageSizeOptions) = 0 \/ \E n \in Elements(props.pageSizeOptions) : n <= 0))
  => (last.kind = "throw" /\ queries = << >>)

\* C22: for every pagination request, from the same current state and with the
\* same data, the self-managed DataTable commits the pagination that
\* handlePaginationChange of the controlled provider commits.
C22_SelfManagedCommitsLikeControlled ==
  (variant = "selfManaged" /\ last.kind = "pagination") => last.arg = last.controlled

\* C23: invalidateQueries on the caller's queryKey fetches the current
\* (pagination, sort) tuple again, leaves pageIndex, pageSize and sort as they
\* were and invokes neither onPaginationChange nor onColumnSortChange.
C23_InvalidationRefetchesWithoutStateChange ==
  last.kind = "invalidate"
  => /\ last.refetching
     /\ last.arg = last.cur /\ last.argSort = last.sort
     /\ pagination = last.cur /\ columnSort = last.sort
     /\ ~last.called

C23_Witness ==
  /\ last.kind = "invalidate"
  /\ pagination.pageIndex = 9
  /\ queries[ObservedKey].fetching /\ queries[ObservedKey].status = "success"

\* C24: validation is idempotent: with the same page-size options and the same
\* data, validating the output of handlePaginationChange (controlled provider)
\* or of updateSearchParams (search-parameter provider) returns it unchanged.
C24_ValidationIsIdempotent ==
  /\ ControlledPaginationCall
     => ValidatedPagination(props.pageSizeOptions, last.rowCount, last.resolved) = last.resolved
  /\ SearchPaginationCall
     => SearchValidated(props.pageSizeOptions, last.rowCount, last.resolved) = last.resolved

C24_Witness ==
  /\ ControlledPaginationCall
  /\ last.hasData /\ last.rowCount > 0
  /\ last.req.pageIndex # last.resolved.pageIndex
  /\ last.req.pageSize # last.resolved.pageSize

\* C25: k successive next-page requests from page p, every target p+1 .. p+k
\* within the page range of the dataset, leave the committed pageIndex at p+k,
\* whether or not the fetches of the intermediate states have resolved.
C25_NextPageRunIndependentOfFetchTiming ==
  (variant = "controlled" /\ last.op = "nextPage"
     /\ serverRowCount > 0
     /\ last.start + last.count <= MaxPageIndex(serverRowCount, pagination.pageSize))
  => pagination.pageIndex = last.start + last.count

\* C26: a page-navigation request (first, previous, next, last, go-to-page)
\* commits a pagination with the pageSize of the current pagination, from every
\* reachable state including the initial state the caller supplies.
C26_NavigationKeepsPageSize ==
  (variant = "controlled" /\ last.kind = "pagination"
     /\ last.op \in {"firstPage", "previousPage", "nextPage", "lastPage", "goToPage"})
  => last.arg.pageSize = last.cur.pageSize

\* the search object without the given keys
WithoutKeys(search, keys) == [k \in (DOMAIN search) \ keys |-> search[k]]

\* C27: pagination and sort are committed independently.  A pagination change
\* leaves the sort and every other search key as it was, and a sort change leaves
\* pageIndex and pageSize as they were, in createSearchParamHandlers,
\* useDataTableURLState, useDataTableState and the search-param provider.
C27_PaginationAndSortAreIndependent ==
  [][ /\ (variant \in {"searchParamHandlers", "urlState"} /\ searchParams' # searchParams)
         => /\ last'.kind = "pagination"
               => WithoutKeys(searchParams', {"pageIndex", "pageSize"})
                    = WithoutKeys(searchParams, {"pageIndex", "pageSize"})
            /\ last'.kind = "sort"
               => WithoutKeys(searchParams', {"sortId", "sortDesc"})
                    = WithoutKeys(searchParams, {"sortId", "sortDesc"})
      /\ variant = "reactState"
         => /\ last'.kind = "pagination" /\ pagination' # pagination => columnSort' = columnSort
            /\ last'.kind = "sort" /\ columnSort' # columnSort => pagination' = pagination
      /\ (variant = "searchParams" /\ searchParams' # searchParams)
         => /\ last'.kind = "pagination"
               => SearchSorting(searchParams', props) = SearchSorting(searchParams, props)
            /\ last'.kind = "sort"
               => SearchPagination(searchParams', props.defaultPageSize)
                    = SearchPagination(searchParams, props.defaultPageSize)
    ]_vars

C27_Witness ==
  /\ variant = "searchParamHandlers"
  /\ last.kind = "sort"
  /\ searchParams # last.prev
  /\ {"q", "pageIndex", "pageSize"} \subseteq DOMAIN searchParams

\* C28: in the URL-synced DataTable the pagination state is, after mount and
\* after every operation, the state getPaginationFromURL decodes from the
\* current URL, and a URL write leaves every query parameter other than
\* pageIndex and pageSize as it was.
C28_StateMirrorsURL ==
  /\ [](variant = "urlTable" => pagination = GetPaginationFromURL(searchParams, props))
  /\ [][ (variant = "urlTable" /\ last'.kind \in {"pagination", "pageSize"}
            /\ searchParams' # searchParams)
         => WithoutKeys(searchParams', {"pageIndex", "pageSize"})
              = WithoutKeys(searchParams, {"pageIndex", "pageSize"}) ]_vars

C28_Witness ==
  /\ variant = "urlTable"
  /\ last.op = "handlePageInputSubmit"
  /\ pagination.pageIndex = 1 /\ pagination.pageSize = 20
  /\ "q" \in DOMAIN searchParams
  /\ searchParams.pageIndex = <<"1">> /\ searchParams.pageSize = <<"2", "0">>

\* C29: the controlled provider always has exactly one active sort.  A table
\* sorting update that resolves to no sort calls no callback and leaves the
\* sort as it was, and every fetch is issued with a defined sort.
C29_ControlledSortIsAlwaysDefined ==
  variant = "controlled"
  => /\ (last.kind = "sort" /\ last.req = None)
        => (~last.called /\ Some(columnSort) = last.cur)
     /\ \A key \in DOMAIN queries : queries[key].args.sorting # None

C29_Witness ==
  /\ variant = "controlled"
  /\ last.op = "handleTableSortingChange" /\ last.req = None
  /\ columnSort = [id |-> "model", desc |-> FALSE]
  /\ ControlledKey \in DOMAIN queries

\* C30: after an update-version action on a row, once the update request and
\* the re-fetch have completed, the version shown for the row is the incremented
\* value, whichever of the two requests the server handled first.
C30_ShownVersionIsIncremented ==
  (variant = "controlled" /\ last.op = "updateVersion"
     /\ server.updateCarVersion = 0
     /\ ControlledKey \in DOMAIN queries
     /\ queries[ControlledKey].status = "success" /\ ~queries[ControlledKey].fetching)
  => queries[ControlledKey].version = server.carIndexToVersion

====
